---- MODULE Spec2Model ----
(***************************************************************************)
(* Model of the Only Connect Database scraper (src/scrape_ocdb.py):        *)
(*   - RateLimiter: the adaptive delay (success / failure),                *)
(*   - OCDBScraper.fetch_page: the retry loop over request outcomes,       *)
(*   - OCDBScraper.run with load_progress / save_progress: the crawl,      *)
(*     its two files on disk, and the ways the process can end.            *)
(* Three specifications share the variables:                               *)
(*   Spec      the crawl (runs, checkpoints, interrupts, crashes),         *)
(*   SpecFetch fetch_page driven by arbitrary request outcomes,            *)
(*   SpecRate  the rate limiter under arbitrary success()/failure() calls. *)
(***************************************************************************)
EXTENDS Integers, Sequences, FiniteSets, TLC

VARIABLES
    \* ---- RateLimiter (lines 49-73)
    delay,          \* self.delay, in units of 10^-MaxDigits seconds
    rlOp,           \* the last RateLimiter method that changed delay
    rlPrev,         \* self.delay before that call
    rlCalls,        \* success()/failure() calls made so far
    \* ---- fetch_page (lines 111-144)
    fpc,            \* "idle" | "attempting" | "returned"
    attempt,        \* the for-loop variable of line 113
    requests,       \* session.get calls issued by the current fetch_page call
    statuses,       \* the outcomes of those calls, in order
    fetchRet,       \* what fetch_page returned: "soup" | "None" | "-"
    fetchExit,      \* the return statement taken: "ok" | "rejected" | "exhausted" | "-"
    fetchLog,       \* {[exit, ret]} of the fetch_page calls that returned
    fetches,        \* number of fetch_page calls started
    \* ---- OCDBScraper.run (lines 597-653) and the files
    pc,             \* position of the process
    ckpt,           \* which save_progress call is running: "periodic" | "final" | "-"
    saveStep,       \* statements of save_progress already executed (0..3)
    resume,         \* run(resume=...)
    max_episodes,   \* run(max_episodes=...): <<>> for None, <<n>> for the number n
    episode_list,   \* get_episode_urls(): the url of every stub, in order
    to_scrape,      \* line 612/615/618
    i,              \* number of loop iterations finished
    episodes,       \* self.episodes: the source url of every record, in order
    completed,      \* self.progress['completed']
    failed,         \* self.progress['failed']
    lastOutcome,    \* outcome of the last per-URL step of this run
    fetched,        \* urls requested through fetch_page in this run
    loadedCompleted,\* progress['completed'] as load_progress left it
    loadedEpisodes, \* self.episodes as load_progress left it
    sameListing,    \* this run's listing is the previous run's listing
    runs,           \* number of runs started
    diskProgress,   \* PROGRESS_FILE
    diskEpisodes,   \* OUTPUT_FILE
    \* ---- the extractors (lines 146-595), applied to one input
    xin,            \* the input: [kind, val]
    xout,           \* what the extractor returned: [kind, val]
    \* ---- RateLimiter.wait (lines 56-64) between requests
    tpc,            \* "waiting" (before wait()) | "requesting" (in session.get)
    lastDur,        \* how long the previous request took
    gap,            \* time from the end of the previous request to the start of this one
    tReqs           \* requests started

rateVars  == <<delay, rlOp, rlPrev, rlCalls>>
fetchVars == <<fpc, attempt, requests, statuses, fetchRet, fetchExit, fetchLog, fetches>>
runVars   == <<pc, ckpt, saveStep, resume, max_episodes, episode_list, to_scrape, i,
               episodes, completed, failed, lastOutcome, fetched, loadedCompleted,
               loadedEpisodes, sameListing, runs>>
diskVars  == <<diskProgress, diskEpisodes>>
extractVars == <<xin, xout>>
waitVars  == <<tpc, lastDur, gap, tReqs>>
vars      == <<rateVars, fetchVars, runVars, diskVars, extractVars, waitVars>>

----------------------------------------------------------------------------
(* Bounds of the model *)

MaxDigits == 6      \* decimal digits kept after the point in delay
MaxRlCalls == 10    \* success()/failure() calls in a behaviour of SpecRate
MaxFetches == 2     \* fetch_page calls in a behaviour of SpecFetch
MaxRuns == 2        \* runs of the scraper in a behaviour of Spec
LongLen == 12       \* length of the long listing
ShortLen == 2       \* listings 1..n for every n up to ShortLen
MaxFlaky == 2       \* urls 1..MaxFlaky may fail; the others always parse
MaxCap == 1         \* --max values 0 (none) .. MaxCap
MaxDocLen == 3      \* elements of a listing document
MaxHeadingLen == 3  \* words of a sub-heading text
MaxClues == 2       \* clue cells of a grid
MaxSiblings == 4    \* sibling elements of an episode page
MaxWords == 9       \* words of the raw text of a wall
MaxSections == 3    \* sibling elements of an episode document
MaxTimedRequests == 4  \* requests of a timed run of the fetch client

(* Program constants *)

MIN_DELAY_TENTHS == 15      \* MIN_DELAY = 1.5
MAX_DELAY_TENTHS == 30      \* MAX_DELAY = 3.0
BACKOFF_FACTOR == 2
MAX_RETRIES == 5
DECAY_TENTHS == 9           \* the factor 0.9 of success()
CEILING_FACTOR == 10        \* MAX_DELAY * 10 in failure()
SAVE_EVERY == 10            \* (i + 1) % 10 == 0

----------------------------------------------------------------------------
(* Helpers *)

Range(s) == {s[k] : k \in DOMAIN s}

Max(a, b) == IF a >= b THEN a ELSE b
Min(a, b) == IF a <= b THEN a ELSE b

RECURSIVE Pow10(_)
Pow10(n) == IF n = 0 THEN 1 ELSE 10 * Pow10(n - 1)

Tenth == Pow10(MaxDigits - 1)       \* 0.1 s in delay units

----------------------------------------------------------------------------
(* RateLimiter.  delay is a decimal fraction of a second; the model keeps  *)
(* it exactly, as an integer number of 10^-MaxDigits seconds.  success()   *)
(* is taken only where delay * 0.9 needs no more than MaxDigits digits or  *)
(* is clamped to the floor anyway (ExactDecay): no rounding is modelled.   *)

MinDelay == MIN_DELAY_TENTHS * Tenth                        \* MIN_DELAY
Ceiling  == MAX_DELAY_TENTHS * Tenth * CEILING_FACTOR       \* MAX_DELAY * 10

\* floor(d * 0.9), computed without leaving 32 bits
Decayed(d) == (d \div 10) * DECAY_TENTHS + ((d % 10) * DECAY_TENTHS) \div 10

ExactDecay(d) ==
    \/ d % 10 = 0
    \/ Decayed(d) < MinDelay

\* A success() that forgets to decay.
SuccessNoDecay(d) == Max(MinDelay, d)

\* self.delay = max(MIN_DELAY, self.delay * 0.9)
Success(d) == Max(MinDelay, Decayed(d))

\* A failure() without the clamp.
FailureNoClamp(d) == d * BACKOFF_FACTOR

\* self.delay = min(MAX_DELAY * 10, self.delay * BACKOFF_FACTOR)
Failure(d) == Min(Ceiling, d * BACKOFF_FACTOR)

RateInit ==
    /\ delay = MinDelay
    /\ rlOp = "init"
    /\ rlPrev = MinDelay
    /\ rlCalls = 0

RateSuccess ==
    /\ ExactDecay(delay)
    /\ delay' = Success(delay)
    /\ rlOp' = "success"
    /\ rlPrev' = delay
    /\ rlCalls' = rlCalls + 1

RateFailure ==
    /\ delay' = Failure(delay)
    /\ rlOp' = "failure"
    /\ rlPrev' = delay
    /\ rlCalls' = rlCalls + 1

----------------------------------------------------------------------------
(* Initial values of the parts a specification leaves alone *)

FetchInit ==
    /\ fpc = "idle"
    /\ attempt = 0
    /\ requests = 0
    /\ statuses = <<>>
    /\ fetchRet = "-"
    /\ fetchExit = "-"
    /\ fetchLog = {}
    /\ fetches = 0

\* A file is absent, whole (one complete json.dump) or torn (opened for
\* writing and so truncated, with none or a part of the new text in it).
NoProgressFile == [state |-> "absent", completed |-> <<>>, failed |-> <<>>]
NoOutputFile   == [state |-> "absent", records |-> <<>>]

RunInit ==
    /\ pc = "idle"
    /\ ckpt = "-"
    /\ saveStep = 0
    /\ resume = FALSE
    /\ max_episodes = <<>>
    /\ episode_list = <<>>
    /\ to_scrape = <<>>
    /\ i = 0
    /\ episodes = <<>>
    /\ completed = <<>>
    /\ failed = <<>>
    /\ lastOutcome = "-"
    /\ fetched = {}
    /\ loadedCompleted = <<>>
    /\ loadedEpisodes = <<>>
    /\ sameListing = FALSE
    /\ runs = 0

DiskInit ==
    /\ diskProgress = NoProgressFile
    /\ diskEpisodes = NoOutputFile

Nothing == [kind |-> "none", val |-> <<>>]

ExtractIdle ==
    /\ xin = Nothing
    /\ xout = Nothing

\* RateLimiter.__init__: last_request = 0, so the first wait() finds a huge
\* elapsed time; no request has been made.
WaitInit ==
    /\ tpc = "waiting"
    /\ lastDur = 0
    /\ gap = 0
    /\ tReqs = 0

----------------------------------------------------------------------------
(* SpecRate: any sequence of success() and failure() calls *)

RLSuccessCall == rlCalls < MaxRlCalls /\ RateSuccess /\ UNCHANGED <<fetchVars, runVars, diskVars, extractVars, waitVars>>

RLFailureCall == rlCalls < MaxRlCalls /\ RateFailure /\ UNCHANGED <<fetchVars, runVars, diskVars, extractVars, waitVars>>

InitRate == RateInit /\ FetchInit /\ RunInit /\ DiskInit /\ ExtractIdle /\ WaitInit

NextRate == RLSuccessCall \/ RLFailureCall

SpecRate == InitRate /\ [][NextRate]_vars

----------------------------------------------------------------------------
(* OCDBScraper.fetch_page.  An outcome is what one session.get call gives: *)
(* a response with a status code, a Timeout or another RequestException.   *)

HttpCodes == {200, 302, 404, 429, 500, 503}

Http(c) == [kind |-> "http", code |-> c]

Outcomes ==
    {Http(c) : c \in HttpCodes}
        \cup {[kind |-> "timeout", code |-> 0], [kind |-> "error", code |-> 0]}

\* A classification that retries every response other than 200.
ClassifyRetryAll(o) ==
    IF o.kind = "http" /\ o.code = 200 THEN "ok" ELSE "retry"

\* The if/elif chain of lines 119-133 and the handlers of lines 135-141.
Classify(o) ==
    IF o.kind = "http"
    THEN IF o.code = 200 THEN "ok"
         ELSE IF o.code = 429 THEN "retry"
         ELSE IF o.code >= 500 THEN "retry"
         ELSE "reject"
    ELSE "retry"

\* fetch_page is entered: the for loop starts at attempt 0.
FetchStart ==
    /\ fpc \in {"idle", "returned"}
    /\ fetches < MaxFetches
    /\ fpc' = "attempting"
    /\ attempt' = 0
    /\ requests' = 0
    /\ statuses' = <<>>
    /\ fetchRet' = "-"
    /\ fetchExit' = "-"
    /\ fetches' = fetches + 1
    /\ UNCHANGED <<fetchLog, rateVars, runVars, diskVars, extractVars, waitVars>>

FetchReturn(exit, ret) ==
    /\ fpc' = "returned"
    /\ fetchExit' = exit
    /\ fetchRet' = ret
    /\ fetchLog' = fetchLog \cup {[exit |-> exit, ret |-> ret]}

\* One iteration of the for loop: wait(), session.get, classification; the
\* iteration that uses up the last attempt falls through to line 143-144.
FetchRequest(o) ==
    /\ fpc = "attempting"
    /\ attempt < MAX_RETRIES
    /\ requests' = requests + 1
    /\ statuses' = Append(statuses, o)
    /\ CASE Classify(o) = "ok" ->
              /\ RateSuccess
              /\ FetchReturn("ok", "soup")
              /\ UNCHANGED attempt
         [] Classify(o) = "reject" ->
              /\ FetchReturn("rejected", "None")
              /\ UNCHANGED <<attempt, rateVars>>
         [] Classify(o) = "retry" ->
              /\ RateFailure
              /\ attempt' = attempt + 1
              /\ IF attempt + 1 = MAX_RETRIES
                 THEN FetchReturn("exhausted", "None")
                 ELSE UNCHANGED <<fpc, fetchExit, fetchRet, fetchLog>>
    /\ UNCHANGED <<fetches, runVars, diskVars, extractVars, waitVars>>

InitFetch == RateInit /\ FetchInit /\ RunInit /\ DiskInit /\ ExtractIdle /\ WaitInit

NextFetch == FetchStart \/ \E o \in Outcomes : FetchRequest(o)

SpecFetch == InitFetch /\ [][NextFetch]_vars

----------------------------------------------------------------------------
(* OCDBScraper.run, load_progress and save_progress.  Episode urls are the *)
(* numbers 1..LongLen, EPISODES_URL is 0.  A record is kept by its source  *)
(* url.  fetch_page and the extraction are seen by their result for the    *)
(* url: a record, None, or an exception raised inside parse_episode.       *)

EPISODES_URL == 0

Prefix(n) == [k \in 1..n |-> k]

\* What get_episode_urls can return: nothing (also when the listing cannot
\* be fetched), the first n episodes, or a listing that links episode 1 twice.
Listings ==
    {Prefix(n) : n \in 0..ShortLen}
        \cup {Prefix(LongLen)}
        \cup {<<1, 1>>}

\* --max is absent (None), or any number from 0 on
NoCap == <<>>

Caps == {NoCap} \cup {<<n>> : n \in 0..MaxCap}

StepOutcomes(u) ==
    IF u <= MaxFlaky THEN {"episode", "None", "exception"} ELSE {"episode"}

TornProgressFile == [state |-> "torn", completed |-> <<>>, failed |-> <<>>]
TornOutputFile   == [state |-> "torn", records |-> <<>>]

\* json.load raises on a torn file; run does not catch it.
LoadFails(res) ==
    res /\ (diskProgress.state = "torn" \/ diskEpisodes.state = "torn")

\* load_progress: self.progress after it
LoadedProgress(res) ==
    IF res /\ diskProgress.state = "whole"
    THEN [completed |-> diskProgress.completed, failed |-> diskProgress.failed]
    ELSE [completed |-> <<>>, failed |-> <<>>]

\* load_progress: self.episodes after it
LoadedEpisodes(res) ==
    IF res /\ diskEpisodes.state = "whole" THEN diskEpisodes.records ELSE <<>>

\* A resume that forgets to filter.
RemainingUnfiltered(list, res, done) == list

\* lines 610-615
Remaining(list, res, done) ==
    IF res
    THEN SelectSeq(list, LAMBDA u : u \notin Range(done))
    ELSE list

\* lines 617-618: "if max_episodes:" is false for None and for 0
Capped(list, cap) ==
    IF cap # NoCap /\ cap[1] # 0
    THEN SubSeq(list, 1, Min(cap[1], Len(list)))
    ELSE list

\* An except clause that does not record the url.
FailedAfterUnrecorded(out, u) ==
    IF out = "None" THEN Append(failed, u) ELSE failed

\* lines 633-639: self.progress['failed'] after the step
FailedAfter(out, u) ==
    IF out = "episode" THEN failed ELSE Append(failed, u)

\* A loop without the periodic save.
AfterIterationFinalOnly(n) ==
    IF n = Len(to_scrape) THEN [pc |-> "save", ckpt |-> "final"]
    ELSE [pc |-> "loop", ckpt |-> "-"]

\* Where the loop goes after iteration number n (lines 641-647).
AfterIteration(n) ==
    IF n % SAVE_EVERY = 0 THEN [pc |-> "save", ckpt |-> "periodic"]
    ELSE IF n = Len(to_scrape) THEN [pc |-> "save", ckpt |-> "final"]
    ELSE [pc |-> "loop", ckpt |-> "-"]

\* A new process: __init__, load_progress, get_episode_urls, filter and cap.
StartRun(res, listing, cap) ==
    /\ pc \in {"idle", "done", "nolist", "load_error", "interrupted", "crashed"}
    /\ runs < MaxRuns
    /\ runs' = runs + 1
    /\ resume' = res
    /\ max_episodes' = cap
    /\ lastOutcome' = "-"
    /\ i' = 0
    /\ saveStep' = 0
    /\ IF LoadFails(res)
       THEN /\ pc' = "load_error"
            /\ ckpt' = "-"
            /\ completed' = <<>>
            /\ failed' = <<>>
            /\ episodes' = <<>>
            /\ loadedCompleted' = <<>>
            /\ loadedEpisodes' = <<>>
            /\ to_scrape' = <<>>
            /\ fetched' = {}
            /\ UNCHANGED <<episode_list, sameListing>>
       ELSE LET prog == LoadedProgress(res)
                ts == Capped(Remaining(listing, res, prog.completed), cap)
            IN  /\ completed' = prog.completed
                /\ failed' = prog.failed
                /\ episodes' = LoadedEpisodes(res)
                /\ loadedCompleted' = prog.completed
                /\ loadedEpisodes' = LoadedEpisodes(res)
                /\ sameListing' = (runs > 0 /\ listing = episode_list)
                /\ episode_list' = listing
                /\ fetched' = {EPISODES_URL}
                /\ IF listing = <<>>
                   THEN /\ pc' = "nolist"
                        /\ ckpt' = "-"
                        /\ to_scrape' = <<>>
                   ELSE /\ to_scrape' = ts
                        /\ pc' = IF ts = <<>> THEN "save" ELSE "loop"
                        /\ ckpt' = IF ts = <<>> THEN "final" ELSE "-"
    /\ UNCHANGED <<rateVars, fetchVars, diskVars, extractVars, waitVars>>

\* One iteration of the loop of line 621, up to the test of line 642.
ScrapeStep(out) ==
    /\ pc = "loop"
    /\ i < Len(to_scrape)
    /\ LET u == to_scrape[i + 1] IN
          /\ out \in StepOutcomes(u)
          /\ fetched' = fetched \cup {u}
          /\ episodes' = IF out = "episode" THEN Append(episodes, u) ELSE episodes
          /\ completed' = IF out = "episode" THEN Append(completed, u) ELSE completed
          /\ failed' = FailedAfter(out, u)
    /\ lastOutcome' = out
    /\ i' = i + 1
    /\ pc' = AfterIteration(i + 1).pc
    /\ ckpt' = AfterIteration(i + 1).ckpt
    /\ UNCHANGED <<saveStep, resume, max_episodes, episode_list, to_scrape,
                   loadedCompleted, loadedEpisodes, sameListing, runs,
                   rateVars, fetchVars, diskVars, extractVars, waitVars>>

saveFrame == <<resume, max_episodes, episode_list, to_scrape, i, episodes,
               completed, failed, lastOutcome, fetched, loadedCompleted,
               loadedEpisodes, sameListing, runs, rateVars, fetchVars,
               extractVars, waitVars>>

\* line 105: open(PROGRESS_FILE, 'w') truncates the file
SaveOpenProgress ==
    /\ pc = "save" /\ saveStep = 0
    /\ diskProgress' = TornProgressFile
    /\ saveStep' = 1
    /\ UNCHANGED <<pc, ckpt, diskEpisodes, saveFrame>>

\* line 106: json.dump(self.progress, f) and the close of the with block
SaveDumpProgress ==
    /\ pc = "save" /\ saveStep = 1
    /\ diskProgress' = [state |-> "whole", completed |-> completed, failed |-> failed]
    /\ saveStep' = 2
    /\ UNCHANGED <<pc, ckpt, diskEpisodes, saveFrame>>

\* line 108: open(OUTPUT_FILE, 'w') truncates the file
SaveOpenOutput ==
    /\ pc = "save" /\ saveStep = 2
    /\ diskEpisodes' = TornOutputFile
    /\ saveStep' = 3
    /\ UNCHANGED <<pc, ckpt, diskProgress, saveFrame>>

\* A save that writes the records as they were loaded.
SaveDumpOutputStale ==
    /\ pc = "save" /\ saveStep = 3
    /\ diskEpisodes' = [state |-> "whole", records |-> loadedEpisodes]
    /\ saveStep' = 0
    /\ IF ckpt = "final"
       THEN pc' = "done" /\ ckpt' = "-"
       ELSE IF i = Len(to_scrape)
            THEN pc' = "save" /\ ckpt' = "final"
            ELSE pc' = "loop" /\ ckpt' = "-"
    /\ UNCHANGED <<diskProgress, saveFrame>>

\* line 109: json.dump(self.episodes, f) and the close; save_progress returns
\* into the loop (line 643) or to the end of run (line 647).
SaveDumpOutput ==
    /\ pc = "save" /\ saveStep = 3
    /\ diskEpisodes' = [state |-> "whole", records |-> episodes]
    /\ saveStep' = 0
    /\ IF ckpt = "final"
       THEN pc' = "done" /\ ckpt' = "-"
       ELSE IF i = Len(to_scrape)
            THEN pc' = "save" /\ ckpt' = "final"
            ELSE pc' = "loop" /\ ckpt' = "-"
    /\ UNCHANGED <<diskProgress, saveFrame>>

endFrame == <<ckpt, saveStep, resume, max_episodes, episode_list, to_scrape, i,
              episodes, completed, failed, lastOutcome, fetched, loadedCompleted,
              loadedEpisodes, sameListing, runs, rateVars, fetchVars, diskVars, extractVars, waitVars>>

\* KeyboardInterrupt during the loop of line 621: "except Exception" does not
\* catch it and no finally block follows, so it leaves run at once.
Interrupt ==
    /\ pc = "loop" \/ (pc = "save" /\ ckpt = "periodic")
    /\ pc' = "interrupted"
    /\ UNCHANGED endFrame

\* The process is killed.
Crash ==
    /\ pc \in {"loop", "save"}
    /\ pc' = "crashed"
    /\ UNCHANGED endFrame

Init == RateInit /\ FetchInit /\ RunInit /\ DiskInit /\ ExtractIdle /\ WaitInit

Next ==
    \/ \E res \in BOOLEAN, listing \in Listings, cap \in Caps : StartRun(res, listing, cap)
    \/ \E out \in {"episode", "None", "exception"} : ScrapeStep(out)
    \/ SaveOpenProgress
    \/ SaveDumpProgress
    \/ SaveOpenOutput
    \/ SaveDumpOutput
    \/ Interrupt
    \/ Crash

Spec == Init /\ [][Next]_vars

----------------------------------------------------------------------------
(* The extractors, each a function of the parsed document.  A text is the  *)
(* sequence of its words; an element is seen by its tag and by what the    *)
(* extractor reads of it.                                                  *)

xframe == <<rateVars, fetchVars, runVars, diskVars, waitVars>>

SeqsUpTo(S, n) == UNION {[1..k -> S] : k \in 0..n}

Indices(s) == [k \in 1..Len(s) |-> k]

\* ---- get_episode_urls (lines 155-190).  A listing document is what
\* find_all(['h2', 'a']) yields: h2 elements with their text and a elements
\* with their href; url is the episode an href with '/episode/' leads to,
\* 0 for any other href.  A stub is kept by its url and series.

NoSeries == <<>>                \* current_series = None

H2(text) == [tag |-> "h2", text |-> text, url |-> 0]
A(url)   == [tag |-> "a", text |-> <<>>, url |-> url]

ListingElements ==
    {H2(<<"Series", "1">>), H2(<<"Series", "2">>), H2(<<"Archive">>),
     A(1), A(2), A(0)}

ListingDocs == SeqsUpTo(ListingElements, MaxDocLen)

\* text.startswith('Series')
StartsWithSeries(text) == Len(text) >= 1 /\ text[1] = "Series"

\* A cursor that is set by the first series header only.
SeriesAfterFirstOnly(cur, el) ==
    IF el.tag = "h2" /\ StartsWithSeries(el.text) /\ cur = NoSeries
    THEN el.text ELSE cur

\* lines 165-169: current_series after the element
SeriesAfter(cur, el) ==
    IF el.tag = "h2" /\ StartsWithSeries(el.text) THEN el.text ELSE cur

\* lines 171-187: the stubs the element adds
StubsOf(cur, el) ==
    IF el.tag = "a" /\ cur # NoSeries /\ el.url # 0
    THEN <<[url |-> el.url, series |-> cur]>>
    ELSE <<>>

RECURSIVE WalkListing(_, _, _)
WalkListing(doc, k, cur) ==
    IF k > Len(doc) THEN <<>>
    ELSE StubsOf(cur, doc[k]) \o WalkListing(doc, k + 1, SeriesAfter(cur, doc[k]))

GetEpisodeUrls(doc) == WalkListing(doc, 1, NoSeries)

ApplyGetEpisodeUrls ==
    /\ xin.kind = "listing"
    /\ xout = Nothing
    /\ xout' = [kind |-> "stubs", val |-> GetEpisodeUrls(xin.val)]
    /\ UNCHANGED <<xin, xframe>>

\* ---- the index label of a sub-heading (lines 283-295).  The symbol of a
\* Greek letter is written as the word "<name>-symbol".

GREEK_LETTERS == <<"Alpha", "Beta", "Gamma", "Delta", "Epsilon", "Zeta">>

GREEK_SYMBOLS == <<"Alpha-symbol", "Beta-symbol", "Gamma-symbol",
                   "Delta-symbol", "Epsilon-symbol", "Zeta-symbol">>

EGYPTIAN_GLYPHS == <<<<"Two", "Reeds">>, <<"Horned", "Viper">>, <<"Lion">>,
                     <<"Water">>, <<"Twisted", "Flax">>, <<"Eye", "of", "Horus">>>>

\* str.lower() of a word
Lower(w) ==
    CASE w = "Alpha" -> "alpha" [] w = "Beta" -> "beta" [] w = "Gamma" -> "gamma"
      [] w = "Delta" -> "delta" [] w = "Epsilon" -> "epsilon" [] w = "Zeta" -> "zeta"
      [] w = "Two" -> "two" [] w = "Reeds" -> "reeds" [] w = "Horned" -> "horned"
      [] w = "Viper" -> "viper" [] w = "Lion" -> "lion" [] w = "Water" -> "water"
      [] w = "Twisted" -> "twisted" [] w = "Flax" -> "flax" [] w = "Eye" -> "eye"
      [] w = "Horus" -> "horus" [] w = "Question" -> "question"
      [] OTHER -> w

LowerText(text) == [k \in DOMAIN text |-> Lower(text[k])]

\* phrase in text
Contains(text, phrase) ==
    \E o \in 0..(Len(text) - Len(phrase)) :
        \A k \in DOMAIN phrase : text[o + k] = phrase[k]

HeadingWords ==
    {"Alpha", "Gamma", "gamma", "Gamma-symbol", "Lion", "lion",
     "Eye", "of", "Horus", "Question", "1"}

Headings == SeqsUpTo(HeadingWords, MaxHeadingLen)

\* lines 285-288: the first Greek letter, from position n on, whose name or
\* symbol the text holds; <<>> for None
RECURSIVE FirstGreek(_, _)
FirstGreek(text, n) ==
    IF n > Len(GREEK_LETTERS) THEN <<>>
    ELSE IF Contains(text, <<GREEK_LETTERS[n]>>) \/ Contains(text, <<GREEK_SYMBOLS[n]>>)
         THEN <<GREEK_LETTERS[n]>>
         ELSE FirstGreek(text, n + 1)

\* A glyph loop that compares without lower().
RECURSIVE FirstGlyphCaseSensitive(_, _)
FirstGlyphCaseSensitive(text, n) ==
    IF n > Len(EGYPTIAN_GLYPHS) THEN <<>>
    ELSE IF Contains(text, EGYPTIAN_GLYPHS[n])
         THEN EGYPTIAN_GLYPHS[n]
         ELSE FirstGlyphCaseSensitive(text, n + 1)

\* lines 289-292: the first glyph, from position n on, that the text holds
\* when both are lowered; <<>> for none
RECURSIVE FirstGlyph(_, _)
FirstGlyph(text, n) ==
    IF n > Len(EGYPTIAN_GLYPHS) THEN <<>>
    ELSE IF Contains(LowerText(text), LowerText(EGYPTIAN_GLYPHS[n]))
         THEN EGYPTIAN_GLYPHS[n]
         ELSE FirstGlyph(text, n + 1)

\* lines 284-295: the glyph loop runs after the Greek loop and overwrites
\* index_label; 'label': index_label or label_text
ResolveLabel(text) ==
    LET greek == FirstGreek(text, 1)
        glyph == FirstGlyph(text, 1)
        index_label == IF glyph # <<>> THEN glyph ELSE greek
    IN  IF index_label # <<>> THEN index_label ELSE text

ApplyResolveLabel ==
    /\ xin.kind = "heading"
    /\ xout = Nothing
    /\ xout' = [kind |-> "label", val |-> ResolveLabel(xin.val)]
    /\ UNCHANGED <<xin, xframe>>

\* ---- extract_clues (lines 201-239).  A clue cell is what the code looks
\* at: whether it has an .mp3 link, an image, a card (with or without a
\* back), and the cleaned text of the back (card "back") or of the cell.
\* A text clue, a plain str in the code, is written [type |-> "text"].

PLACEHOLDERS == {"Clue 2", "Clue 3", "Clue 4", "?"}

ClueTexts == {"", "?", "Clue 3", "Paris"}

ClueCells ==
    [audio : BOOLEAN, img : BOOLEAN, card : {"none", "empty", "back"}, text : ClueTexts]

Grids == SeqsUpTo(ClueCells, MaxClues)

TextClue(t) == [type |-> "text", text |-> t]

\* lines 233-236
PlainClues(cell) ==
    IF cell.text # "" /\ cell.text \notin PLACEHOLDERS
    THEN <<TextClue(cell.text)>> ELSE <<>>

\* lines 224-231: no placeholder test on the back of a card
CardClues(cell) ==
    IF cell.card = "back" /\ cell.text # "" THEN <<TextClue(cell.text)>> ELSE <<>>

\* lines 209-236: the clues one cell adds
CluesOf(cell) ==
    IF cell.audio THEN <<[type |-> "audio", text |-> ""]>>
    ELSE IF cell.img THEN <<[type |-> "image", text |-> ""]>>
    ELSE IF cell.card # "none" THEN CardClues(cell)
    ELSE PlainClues(cell)

RECURSIVE ExtractCluesFrom(_, _)
ExtractCluesFrom(grid, k) ==
    IF k > Len(grid) THEN <<>>
    ELSE CluesOf(grid[k]) \o ExtractCluesFrom(grid, k + 1)

ExtractClues(grid) == ExtractCluesFrom(grid, 1)

ApplyExtractClues ==
    /\ xin.kind = "grid"
    /\ xout = Nothing
    /\ xout' = [kind |-> "clues", val |-> ExtractClues(xin.val)]
    /\ UNCHANGED <<xin, xframe>>

\* ---- parse_connection_round (lines 252-302).  An episode page is the
\* sequence of sibling elements the walk sees: round headings (h2 with
\* 'Round n'), sub-headings (h3) and divs by class.  A question is
\* reported by the positions of its sub-heading and of the grid it used.

RoundH2(n) == [tag |-> "h2", cls |-> "", round |-> n]
H3 == [tag |-> "h3", cls |-> "", round |-> 0]
Div(cls) == [tag |-> "div", cls |-> cls, round |-> 0]

PageElements == {RoundH2(1), RoundH2(2), H3, Div("round"), Div("grid-container"), Div("other")}

Pages == SeqsUpTo(PageElements, MaxSiblings)

ConnectionRounds == {1, 2}

\* soup.find('h2', ...): position of the first heading of round r, 0 if none
RoundHeader(page, r) ==
    IF \E k \in DOMAIN page : page[k] = RoundH2(r)
    THEN CHOOSE k \in DOMAIN page :
            page[k] = RoundH2(r) /\ \A m \in 1..(k - 1) : page[m] # RoundH2(r)
    ELSE 0

\* current.find_next_sibling('div', class_=cls): position of the first
\* later sibling that is a div of that class, 0 if none
FindNextSibling(page, k, cls) ==
    IF \E g \in (k + 1)..Len(page) : page[g] = Div(cls)
    THEN CHOOSE g \in (k + 1)..Len(page) :
            page[g] = Div(cls) /\ \A m \in (k + 1)..(g - 1) : page[m] # Div(cls)
    ELSE 0

\* lines 275-277
GridOf(page, k) ==
    IF FindNextSibling(page, k, "round") # 0
    THEN FindNextSibling(page, k, "round")
    ELSE FindNextSibling(page, k, "grid-container")

\* lines 266-300: the walk from sibling k on
RECURSIVE WalkRound(_, _, _)
WalkRound(page, r, k) ==
    IF k > Len(page) \/ page[k].tag = "h2" THEN <<>>
    ELSE IF page[k].tag = "h3" /\ GridOf(page, k) # 0
         THEN <<[round |-> r, heading |-> k, grid |-> GridOf(page, k)]>>
                  \o WalkRound(page, r, k + 1)
         ELSE WalkRound(page, r, k + 1)

ParseConnectionRound(page, r) ==
    IF RoundHeader(page, r) = 0 THEN <<>>
    ELSE WalkRound(page, r, RoundHeader(page, r) + 1)

ApplyParseConnectionRound ==
    /\ xin.kind = "page"
    /\ xout = Nothing
    /\ \E r \in ConnectionRounds :
          xout' = [kind |-> "questions", val |-> ParseConnectionRound(xin.val, r)]
    /\ UNCHANGED <<xin, xframe>>

\* ---- the groups of one wall (lines 325-360, 371-397).  A structured
\* wall container is, per group number, the cleaned texts of the clue
\* cells and the connection; a raw wall is the words of the cleaned text.
\* A group is [items, connection, raw_text], the unused fields empty.

WALL_GROUPS == 4

RAW_ITEMS == 4

RAW_MIN_WORDS == 5

CellTexts == {<<>>, <<"">>, <<"a", "b", "c", "d">>, <<"a", "", "c", "d">>}

Connections == {<<>>, <<"Capitals">>}

WallContainers == [1..WALL_GROUPS -> [cells : CellTexts, connection : Connections]]

RawWords == {"a", "Answer"}

RawTexts == SeqsUpTo(RawWords, MaxWords)

NonEmpty(t) == t # ""

\* lines 337-342: the non-empty cell texts, in order
ItemsOf(g) == SelectSeq(g.cells, NonEmpty)

\* A wall loop that appends every group.
KeepGroupAlways(g) == TRUE

\* line 351: if items or connection
KeepGroup(g) == ItemsOf(g) # <<>> \/ g.connection # <<>>

RECURSIVE WallGroupsFrom(_, _)
WallGroupsFrom(wall, n) ==
    IF n > WALL_GROUPS THEN <<>>
    ELSE (IF KeepGroup(wall[n])
          THEN <<[items |-> ItemsOf(wall[n]), connection |-> wall[n].connection,
                  raw_text |-> <<>>]>>
          ELSE <<>>) \o WallGroupsFrom(wall, n + 1)

\* lines 329-355
ParseWallContainer(wall) == WallGroupsFrom(wall, 1)

\* re.split(r'\s+Answer\s*', text), part.strip() and the skip of empty
\* parts: the word "Answer" separates when it is not the first word and
\* the word before it did not separate (that match took the blank).
\* cur is the part being collected.
RECURSIVE SplitOnAnswer(_, _, _, _)
SplitOnAnswer(words, k, cur, afterSep) ==
    IF k > Len(words) THEN (IF cur # <<>> THEN <<cur>> ELSE <<>>)
    ELSE IF words[k] = "Answer" /\ k > 1 /\ ~afterSep
         THEN (IF cur # <<>> THEN <<cur>> ELSE <<>>)
                  \o SplitOnAnswer(words, k + 1, <<>>, TRUE)
         ELSE SplitOnAnswer(words, k + 1, Append(cur, words[k]), FALSE)

\* lines 385-395
RawGroup(part) ==
    IF Len(part) >= RAW_MIN_WORDS
    THEN [items |-> SubSeq(part, 1, RAW_ITEMS),
          connection |-> SubSeq(part, RAW_ITEMS + 1, Len(part)),
          raw_text |-> <<>>]
    ELSE [items |-> <<>>, connection |-> <<>>, raw_text |-> part]

ParseWallRawText(words) ==
    LET parts == SplitOnAnswer(words, 1, <<>>, FALSE)
    IN  [k \in DOMAIN parts |-> RawGroup(parts[k])]

ApplyParseWallContainer ==
    /\ xin.kind = "wall"
    /\ xout = Nothing
    /\ xout' = [kind |-> "groups", val |-> ParseWallContainer(xin.val)]
    /\ UNCHANGED <<xin, xframe>>

\* lines 356-360: no wall-container in the question div
ApplyParseWallRawText ==
    /\ xin.kind = "rawwall"
    /\ xout = Nothing
    /\ xout' = [kind |-> "groups", val |-> ParseWallRawText(xin.val)]
    /\ UNCHANGED <<xin, xframe>>

\* ---- parse_episode (lines 551-595) and the branch of run on its result
\* (lines 626-632).  An episode document is the fetch result and, when
\* fetched, the sibling elements of the page.  Each entry of a round
\* collection is reported as [round, heading, grid]: the positions of the
\* heading and of the element the entry is read from.

ROUNDS == 4

EpisodeElements ==
    {RoundH2(r) : r \in 1..ROUNDS}
        \cup {H3, Div("round"), Div("question"), Div("vowel-round")}

EpisodeDocs == [fetched : BOOLEAN, page : SeqsUpTo(EpisodeElements, MaxSections)]

\* lines 315-365: one wall per sub-heading that has a later question div
RECURSIVE WalkWalls(_, _)
WalkWalls(page, k) ==
    IF k > Len(page) \/ page[k].tag = "h2" THEN <<>>
    ELSE IF page[k].tag = "h3" /\ FindNextSibling(page, k, "question") # 0
         THEN <<[round |-> 3, heading |-> k,
                 grid |-> FindNextSibling(page, k, "question")]>>
                  \o WalkWalls(page, k + 1)
         ELSE WalkWalls(page, k + 1)

\* lines 304-369
ParseWallRound(page) ==
    IF RoundHeader(page, 3) = 0 THEN <<>>
    ELSE WalkWalls(page, RoundHeader(page, 3) + 1)

\* lines 399-460: without the round header there is no category; with it
\* the categories are read from the first vowel-round div of the document,
\* else from the sibling after the round header.  The one entry stands for
\* what that element holds.
ParseVowelsRound(page) ==
    LET h == RoundHeader(page, 4)
        v == FindNextSibling(page, 0, "vowel-round")
    IN  IF h = 0 THEN <<>>
        ELSE IF v # 0 THEN <<[round |-> 4, heading |-> h, grid |-> v]>>
        ELSE IF h < Len(page) THEN <<[round |-> 4, heading |-> h, grid |-> h + 1]>>
        ELSE <<>>

NoEpisode == [ok |-> FALSE, rounds |-> <<>>]

RoundsOf(page) ==
    <<ParseConnectionRound(page, 1), ParseConnectionRound(page, 2),
      ParseWallRound(page), ParseVowelsRound(page)>>

\* A parse_episode that gives up on a document without any round.
ParseEpisodeNoneWhenEmpty(doc) ==
    IF ~doc.fetched \/ RoundsOf(doc.page) = <<<<>>, <<>>, <<>>, <<>>>> THEN NoEpisode
    ELSE [ok |-> TRUE, rounds |-> RoundsOf(doc.page)]

\* lines 553-595: None only when the fetch gave nothing
ParseEpisode(doc) ==
    IF ~doc.fetched THEN NoEpisode
    ELSE [ok |-> TRUE, rounds |-> RoundsOf(doc.page)]

\* lines 626-632: if episode: append and mark completed, else mark failed
RunBranch(episode) == IF episode.ok THEN "completed" ELSE "failed"

ApplyParseEpisode ==
    /\ xin.kind = "document"
    /\ xout = Nothing
    /\ xout' = [kind |-> "episode",
                val |-> [episode |-> ParseEpisode(xin.val),
                         recorded |-> RunBranch(ParseEpisode(xin.val))]]
    /\ UNCHANGED <<xin, xframe>>

----------------------------------------------------------------------------
(* SpecExtract: one input, drawn from the bounded sets, and the extractor  *)
(* of its kind applied to it.                                              *)

ExtractInput(kind, S) == {[kind |-> kind, val |-> v] : v \in S}

InitExtract ==
    /\ RateInit /\ FetchInit /\ RunInit /\ DiskInit /\ WaitInit
    /\ \/ xin \in ExtractInput("listing", ListingDocs)
       \/ xin \in ExtractInput("heading", Headings)
       \/ xin \in ExtractInput("grid", Grids)
       \/ xin \in ExtractInput("page", Pages)
       \/ xin \in ExtractInput("wall", WallContainers)
       \/ xin \in ExtractInput("rawwall", RawTexts)
       \/ xin \in ExtractInput("document", EpisodeDocs)
    /\ xout = Nothing

NextExtract ==
    \/ ApplyGetEpisodeUrls
    \/ ApplyResolveLabel
    \/ ApplyExtractClues
    \/ ApplyParseConnectionRound
    \/ ApplyParseWallContainer
    \/ ApplyParseWallRawText
    \/ ApplyParseEpisode

SpecExtract == InitExtract /\ [][NextExtract]_vars

----------------------------------------------------------------------------
(* SpecWait: the timing of the requests of the fetch client.  Times are in *)
(* the units of delay.  lastDur is how long the previous request took,     *)
(* gap the time from its end to the start of the current one.  wait()      *)
(* measures from last_request, which it sets when it returns, that is at   *)
(* the START of a request (line 64).                                       *)

JITTER_MAX_TENTHS == 5

Jitters == {0, JITTER_MAX_TENTHS * Tenth}      \* random.uniform(0, 0.5)

Durations == {0, 5 * Tenth, 20 * Tenth}        \* session.get(url, timeout=30)

Idles == {0, Tenth}                            \* time spent between a request and wait()

timedFrame == <<rlOp, rlPrev, rlCalls, fetchVars, runVars, diskVars, extractVars>>

\* lines 58-63: how long wait() sleeps when elapsed has passed since
\* last_request
Slept(d, elapsed, jitter) ==
    IF Max(0, d - elapsed) > 0 THEN Max(0, d - elapsed) + jitter ELSE 0

\* rate_limiter.wait() of line 114.  Before the first request last_request
\* is 0 and nothing is slept.
WaitCall(idle, jitter) ==
    /\ tpc = "waiting"
    /\ tReqs < MaxTimedRequests
    /\ gap' = IF tReqs = 0 THEN 0 ELSE idle + Slept(delay, lastDur + idle, jitter)
    /\ tpc' = "requesting"
    /\ UNCHANGED <<delay, lastDur, tReqs, timedFrame>>

\* session.get and the call of success() or failure() after it
\* (lines 116-141)
TimedRequest(dur, o) ==
    /\ tpc = "requesting"
    /\ Classify(o) = "ok" => ExactDecay(delay)
    /\ delay' = CASE Classify(o) = "ok" -> Success(delay)
                  [] Classify(o) = "retry" -> Failure(delay)
                  [] OTHER -> delay
    /\ lastDur' = dur
    /\ tReqs' = tReqs + 1
    /\ tpc' = "waiting"
    /\ UNCHANGED <<gap, timedFrame>>

InitWait == RateInit /\ FetchInit /\ RunInit /\ DiskInit /\ ExtractIdle /\ WaitInit

NextWait ==
    \/ \E idle \in Idles, jitter \in Jitters : WaitCall(idle, jitter)
    \/ \E dur \in Durations, o \in Outcomes : TimedRequest(dur, o)

SpecWait == InitWait /\ [][NextWait]_vars

----------------------------------------------------------------------------
(* Properties of the rate limiter (SpecRate) *)

\* C9: in every reachable state the delay lies between the floor MIN_DELAY
\* and the ceiling 10 x MAX_DELAY, whatever success()/failure() calls were made.
DelayWithinBounds == MinDelay <= delay /\ delay <= Ceiling

\* A failure() whose doubling went past the ceiling and was clamped to it.
ClampedAtCeiling ==
    /\ rlOp = "failure"
    /\ rlPrev < Ceiling
    /\ rlPrev * BACKOFF_FACTOR > Ceiling
    /\ delay = Ceiling

\* C10: failure() leaves the delay strictly larger when it was below the
\* ceiling and unchanged at the ceiling; success() leaves it strictly smaller
\* when it was above the floor and unchanged at the floor.
DelayMovesStrictly ==
    /\ rlOp = "failure" =>
          IF rlPrev < Ceiling THEN delay > rlPrev ELSE delay = rlPrev
    /\ rlOp = "success" =>
          IF rlPrev > MinDelay THEN delay < rlPrev ELSE delay = rlPrev

\* A success() that decayed the delay without reaching the floor.
DecayedAboveFloor ==
    /\ rlOp = "success"
    /\ MinDelay < delay
    /\ delay < rlPrev

----------------------------------------------------------------------------
(* Properties of fetch_page (SpecFetch) *)

IsSuccess(o) == o.kind = "http" /\ o.code = 200

IsPermanent(o) == o.kind = "http" /\ o.code \notin {200, 429} /\ o.code < 500

Stops(o) == IsSuccess(o) \/ IsPermanent(o)

\* C4: fetch issues requests one at a time until the first HTTP 200
\* (success), the first status that is neither 200, 429 nor >= 500 (failure,
\* no further request) or the ceiling of MAX_RETRIES requests (failure),
\* whichever comes first.
FetchStopsAtFirst ==
    /\ requests = Len(statuses)
    /\ requests <= MAX_RETRIES
    /\ \A k \in 1..(Len(statuses) - 1) : ~Stops(statuses[k])
    /\ fpc = "attempting" =>
          /\ requests < MAX_RETRIES
          /\ \A k \in DOMAIN statuses : ~Stops(statuses[k])
    /\ fpc = "returned" =>
          /\ requests >= 1
          /\ LET last == statuses[Len(statuses)] IN
                IF IsSuccess(last) THEN fetchRet = "soup"
                ELSE IF IsPermanent(last) THEN fetchRet = "None"
                ELSE requests = MAX_RETRIES /\ fetchRet = "None"

\* The outcomes 429, 500, 200 were answered with 3 requests and a success.
ThreeRequestsThenSuccess ==
    /\ fpc = "returned"
    /\ statuses = <<Http(429), Http(500), Http(200)>>
    /\ requests = 3
    /\ fetchRet = "soup"

\* C5: a fetch that failed by exhausting its retries and a fetch that failed
\* on a permanent status return distinguishable failures.
FailuresDistinguishable ==
    \A a, b \in fetchLog :
        (a.exit = "exhausted" /\ b.exit = "rejected") => a.ret # b.ret

----------------------------------------------------------------------------
(* Properties of the crawl (Spec) *)

NoDup(s) == \A a, b \in DOMAIN s : a # b => s[a] # s[b]

\* C1: after any sequence of runs the accumulated record collection, in
\* memory and on disk, never holds two records with the same source url.
NoDuplicateRecords == NoDup(episodes) /\ NoDup(diskEpisodes.records)

\* C2: in a resumed run no url of the loaded completed set is requested
\* through fetch_page.
ResumeSkipsCompleted ==
    resume => fetched \cap Range(loadedCompleted) = {}

\* A resumed run over the unchanged listing, with a non-empty completed set,
\* that finished after fetching the episodes that were left.
ResumedRunFetchedTheRest ==
    /\ pc = "done"
    /\ resume
    /\ sameListing
    /\ loadedCompleted # <<>>
    /\ Range(loadedCompleted) \cap Range(episode_list) # {}
    /\ \E u \in fetched : u # EPISODES_URL

\* C3: a run ends interrupted only after a final checkpoint, so every url
\* completed in memory is in the progress file and its record in the output file.
InterruptedAfterCheckpoint ==
    pc = "interrupted" =>
        /\ \A u \in Range(completed) :
              diskProgress.state = "whole" /\ u \in Range(diskProgress.completed)
        /\ \A u \in Range(episodes) :
              diskEpisodes.state = "whole" /\ u \in Range(diskEpisodes.records)

\* C6: when the process is killed, each of the two files holds a complete
\* previous or a complete new content, never an empty or partly written one.
SaveIsAtomic ==
    pc = "crashed" =>
        /\ diskProgress.state # "torn"
        /\ diskEpisodes.state # "torn"

\* C7: a resumed run fetches again every listed url that the progress file
\* marks completed and the output file has no record of, so that when it is
\* done every completed url has a record.
ResumeRepairsMissingRecords ==
    (pc = "done" /\ resume /\ max_episodes = NoCap) =>
        /\ \A u \in Range(episode_list) :
              (u \in Range(loadedCompleted) /\ u \notin Range(loadedEpisodes))
                  => u \in fetched
        /\ Range(diskProgress.completed) \subseteq Range(diskEpisodes.records)

\* The run is where a per-URL step leaves it.
RunGoesOn(p, c, n) ==
    \/ p = "loop" /\ n < Len(to_scrape)
    \/ p = "save" /\ c = "periodic"
    \/ p = "save" /\ c = "final" /\ n = Len(to_scrape)

\* C8: a per-URL step that fails (None or an exception) records the url as
\* failed and the run goes on: every url of the run is processed and the
\* run is done only after the final checkpoint.
EveryUrlRecorded ==
    pc \in {"loop", "save", "done"} =>
        /\ \A k \in 1..i : to_scrape[k] \in Range(completed) \cup Range(failed)
        /\ lastOutcome \in {"None", "exception"} =>
              /\ failed # <<>>
              /\ failed[Len(failed)] = to_scrape[i]
        /\ pc = "done" =>
              /\ i = Len(to_scrape)
              /\ diskProgress =
                    [state |-> "whole", completed |-> completed, failed |-> failed]
              /\ diskEpisodes = [state |-> "whole", records |-> episodes]

FailedStepGoesOn ==
    (i' = i + 1 /\ lastOutcome' \in {"None", "exception"}) =>
        /\ failed' = Append(failed, to_scrape[i + 1])
        /\ to_scrape' = to_scrape
        /\ RunGoesOn(pc', ckpt', i')

PerUrlFailureContinues == []EveryUrlRecorded /\ [][FailedStepGoesOn]_vars

\* A fresh run whose first url failed, whose second url was then completed,
\* and which is done.
RunDoneAfterFailure ==
    /\ pc = "done"
    /\ ~resume
    /\ Len(to_scrape) >= 2
    /\ i = Len(to_scrape)
    /\ failed = <<to_scrape[1]>>
    /\ to_scrape[2] \in Range(completed)

\* Entries of progress['completed'] in memory that the progress file lacks.
UnsavedCompleted ==
    Cardinality({k \in DOMAIN completed :
        diskProgress.state # "whole" \/ completed[k] \notin Range(diskProgress.completed)})

\* Urls completed by this run so far.
CompletedInRun == Len(completed) - Len(loadedCompleted)

\* C11 as stated: the progress store is checkpointed after every
\* SAVE_EVERY-th completed url, and at the top of the loop at most
\* SAVE_EVERY - 1 completed urls are missing from the progress file.
CheckpointEveryNthCompletion ==
    pc = "loop" =>
        /\ UnsavedCompleted <= SAVE_EVERY - 1
        /\ (lastOutcome = "episode" /\ CompletedInRun > 0
                /\ CompletedInRun % SAVE_EVERY = 0) =>
              /\ diskProgress.state = "whole"
              /\ diskProgress.completed = completed

\* C11 as amended: the progress store is checkpointed after every
\* SAVE_EVERY-th iteration of the loop (url completed or failed), and at the
\* top of the loop at most SAVE_EVERY - 1 completed urls are missing from the
\* progress file.
CheckpointEveryNthIteration ==
    pc = "loop" =>
        /\ UnsavedCompleted <= SAVE_EVERY - 1
        /\ (i > 0 /\ i % SAVE_EVERY = 0) =>
              /\ diskProgress =
                    [state |-> "whole", completed |-> completed, failed |-> failed]
              /\ diskEpisodes = [state |-> "whole", records |-> episodes]

\* Back in the loop after the periodic save that followed SAVE_EVERY
\* iterations, one of which failed.
CheckpointedAfterTenIterations ==
    /\ pc = "loop"
    /\ ~resume
    /\ i = SAVE_EVERY
    /\ failed # <<>>
    /\ Len(completed) = SAVE_EVERY - 1
    /\ diskProgress.completed = completed

\* C12: a run given the cap N processes at most N urls, and they are the
\* first N urls of the listing that are left after the completed ones are
\* filtered out (all of them when fewer than N are left).
CapLimitsRun ==
    (max_episodes # NoCap /\ pc \in {"loop", "save", "done"}) =>
        LET n == max_episodes[1]
            left == Remaining(episode_list, resume, loadedCompleted)
        IN  /\ to_scrape = SubSeq(left, 1, Min(n, Len(left)))
            /\ i <= n

\* C21, for a resumed run over the same duplicate-free listing as the run
\* before it: when the run is done no url is in both the completed and the
\* failed collection of the progress file, and no url is in the failed
\* collection more than once.
CompletedNotFailed ==
    (pc = "done" /\ resume /\ sameListing /\ NoDup(episode_list)) =>
        /\ Range(diskProgress.completed) \cap Range(diskProgress.failed) = {}
        /\ NoDup(diskProgress.failed)

\* The run started from a progress file and an output file that name the
\* same urls, or without resume (both collections empty).
StartedInAgreement == Range(loadedCompleted) = Range(loadedEpisodes)

\* A periodic checkpoint (i is a multiple of SAVE_EVERY) or the final one
\* has just been written in full.
CheckpointWritten ==
    /\ saveStep = 0
    /\ \/ pc = "done"
       \/ /\ i > 0 /\ i % SAVE_EVERY = 0
          /\ pc = "loop" \/ (pc = "save" /\ ckpt = "final")

\* C22: in a run that started from artifacts that agree or without resume,
\* the collections a checkpoint writes name the same urls, and after each
\* checkpoint, periodic or final, the completed collection of the progress
\* file and the records of the output file name the same urls.
CheckpointArtifactsAgree ==
    StartedInAgreement =>
        /\ pc = "save" => Range(completed) = Range(episodes)
        /\ CheckpointWritten =>
              /\ diskProgress.state = "whole" /\ diskEpisodes.state = "whole"
              /\ Range(diskProgress.completed) = Range(diskEpisodes.records)

\* A resumed run that loaded agreeing, non-empty artifacts wrote a periodic
\* checkpoint after completing further urls.
ResumedRunCheckpointed ==
    /\ resume
    /\ loadedCompleted # <<>>
    /\ StartedInAgreement
    /\ pc = "loop"
    /\ CheckpointWritten
    /\ Len(diskProgress.completed) > Len(loadedCompleted)

----------------------------------------------------------------------------
(* Properties of the extractors (SpecExtract) *)

IsEpisodeLink(el) == el.tag = "a" /\ el.url # 0

IsSeriesHeader(el) == el.tag = "h2" /\ StartsWithSeries(el.text)

HeadersBefore(doc, k) == {h \in 1..(k - 1) : IsSeriesHeader(doc[h])}

NearestHeader(doc, k) ==
    CHOOSE h \in HeadersBefore(doc, k) : \A g \in HeadersBefore(doc, k) : g <= h

\* C17 as stated: the discoverer returns one stub per episode link, in
\* document order, each with the label of the nearest series header that
\* precedes its link.
OneStubPerEpisodeLink ==
    xout.kind = "stubs" =>
        LET doc == xin.val
            pos == SelectSeq(Indices(doc), LAMBDA k : IsEpisodeLink(doc[k]))
        IN  /\ Len(xout.val) = Len(pos)
            /\ \A j \in DOMAIN pos :
                  /\ xout.val[j].url = doc[pos[j]].url
                  /\ HeadersBefore(doc, pos[j]) # {}
                  /\ xout.val[j].series = doc[NearestHeader(doc, pos[j])].text

\* C17 as amended: one stub per episode link that follows a series header,
\* in document order, each with the label of the nearest series header that
\* precedes its link; a link before the first series header gives no stub.
OneStubPerLinkUnderHeader ==
    xout.kind = "stubs" =>
        LET doc == xin.val
            pos == SelectSeq(Indices(doc),
                       LAMBDA k : IsEpisodeLink(doc[k]) /\ HeadersBefore(doc, k) # {})
        IN  /\ Len(xout.val) = Len(pos)
            /\ \A j \in DOMAIN pos :
                  /\ xout.val[j].url = doc[pos[j]].url
                  /\ xout.val[j].series = doc[NearestHeader(doc, pos[j])].text

\* One series header and two episode links gave two stubs of that series.
TwoStubsOfOneSeries ==
    /\ xin = [kind |-> "listing", val |-> <<H2(<<"Series", "1">>), A(1), A(2)>>]
    /\ xout = [kind |-> "stubs",
               val |-> <<[url |-> 1, series |-> <<"Series", "1">>],
                         [url |-> 2, series |-> <<"Series", "1">>]>>]

GreekIn(text) ==
    {n \in DOMAIN GREEK_LETTERS :
        Contains(text, <<GREEK_LETTERS[n]>>) \/ Contains(text, <<GREEK_SYMBOLS[n]>>)}

GlyphsInAnyCase(text) ==
    {n \in DOMAIN EGYPTIAN_GLYPHS :
        Contains(LowerText(text), LowerText(EGYPTIAN_GLYPHS[n]))}

Least(S) == CHOOSE n \in S : \A m \in S : n <= m

\* C16 as stated: a heading that holds a Greek-letter name or its symbol
\* resolves to that Greek-letter name, a heading that holds a glyph name
\* (in any letter case, as the code compares) resolves to that glyph name,
\* and a heading that matches neither vocabulary resolves to the raw
\* heading text.
LabelIsTheNameHeld ==
    xout.kind = "label" =>
        /\ \A n \in GreekIn(xin.val) : xout.val = <<GREEK_LETTERS[n]>>
        /\ \A n \in GlyphsInAnyCase(xin.val) : xout.val = EGYPTIAN_GLYPHS[n]
        /\ (GreekIn(xin.val) = {} /\ GlyphsInAnyCase(xin.val) = {}) => xout.val = xin.val

\* C16 as amended: a heading that holds a glyph name, in any letter case,
\* resolves to the first such glyph of the vocabulary, also when it holds a
\* Greek-letter name; otherwise a heading that holds a Greek-letter name or
\* symbol resolves to the first such letter of the vocabulary; a heading
\* that matches neither resolves to the raw heading text.
LabelIsFirstMatchGlyphFirst ==
    xout.kind = "label" =>
        IF GlyphsInAnyCase(xin.val) # {}
        THEN xout.val = EGYPTIAN_GLYPHS[Least(GlyphsInAnyCase(xin.val))]
        ELSE IF GreekIn(xin.val) # {}
             THEN xout.val = <<GREEK_LETTERS[Least(GreekIn(xin.val))]>>
             ELSE xout.val = xin.val

\* A heading with the symbol of Gamma and a lower-case glyph name resolved
\* to the glyph.
GlyphWonOverGreek ==
    /\ xin.kind = "heading" /\ xin.val = <<"Gamma-symbol", "lion">>
    /\ xout.kind = "label" /\ xout.val = <<"Lion">>

\* C15: whichever way a clue cell's text is obtained, a text that is one of
\* the placeholder tokens adds no clue, so the clue list holds no
\* placeholder text.
NoPlaceholderClue ==
    xout.kind = "clues" =>
        \A k \in DOMAIN xout.val :
            xout.val[k].type = "text" => xout.val[k].text \notin PLACEHOLDERS

\* C19: every question of a connection round takes its grid from after
\* its own sub-heading and before both the next sub-heading and the next
\* round heading, and no grid is used for two questions.
GridBelongsToItsQuestion ==
    xout.kind = "questions" =>
        /\ \A q \in DOMAIN xout.val :
              /\ xout.val[q].grid > xout.val[q].heading
              /\ \A m \in (xout.val[q].heading + 1)..(xout.val[q].grid - 1) :
                    xin.val[m].tag \notin {"h3", "h2"}
        /\ \A p, q \in DOMAIN xout.val :
              xout.val[p].grid = xout.val[q].grid => p = q

EmptyGroup(g) == (\A c \in DOMAIN g.cells : g.cells[c] = "") /\ g.connection = <<>>

\* the wall has exactly one group with no item and no connection
OneEmptyGroup(wall, e) ==
    /\ EmptyGroup(wall[e])
    /\ \A n \in DOMAIN wall : n # e => ~EmptyGroup(wall[n])

IsEmptyResult(grp) == grp.items = <<>> /\ grp.connection = <<>> /\ grp.raw_text = <<>>

\* C14 as stated: a structured wall in which one of the four groups has no
\* item and no connection yields 4 groups, the 3 populated ones and 1 group
\* with empty items and empty connection.
EmptyGroupIsKept ==
    (xout.kind = "groups" /\ xin.kind = "wall") =>
        \A e \in DOMAIN xin.val :
            OneEmptyGroup(xin.val, e) =>
                /\ Len(xout.val) = 4
                /\ IsEmptyResult(xout.val[e])

\* C14 as amended: such a wall yields 3 groups, the populated ones in
\* group order, each with its non-empty items and its connection; the
\* empty group is left out.
EmptyGroupIsLeftOut ==
    (xout.kind = "groups" /\ xin.kind = "wall") =>
        \A e \in DOMAIN xin.val :
            OneEmptyGroup(xin.val, e) =>
                /\ Len(xout.val) = 3
                /\ \A k \in 1..3 :
                      LET n == IF k < e THEN k ELSE k + 1
                      IN  /\ xout.val[k].items = SelectSeq(xin.val[n].cells, NonEmpty)
                          /\ xout.val[k].connection = xin.val[n].connection
                          /\ ~IsEmptyResult(xout.val[k])

\* A wall whose second group is empty came out as three groups.
WallOfThreeGroups ==
    /\ xin.kind = "wall"
    /\ OneEmptyGroup(xin.val, 2)
    /\ xout.kind = "groups"
    /\ Len(xout.val) = 3

\* C20: every wall, built from the structured container or from the raw
\* text split on "Answer", has at most 4 groups.
AtMostFourGroups ==
    xout.kind = "groups" => Len(xout.val) <= 4

SectionAbsent(page, r) == \A k \in DOMAIN page : page[k] # RoundH2(r)

\* C13: whenever the episode document was fetched, extraction returns a
\* record with its four round collections, each empty when its section is
\* absent, and the run records the URL as completed, not failed; this
\* holds in particular for a document with no round at all.
FetchedDocumentIsRecorded ==
    (xout.kind = "episode" /\ xin.val.fetched) =>
        /\ xout.val.episode.ok
        /\ Len(xout.val.episode.rounds) = 4
        /\ \A r \in 1..4 :
              SectionAbsent(xin.val.page, r) => xout.val.episode.rounds[r] = <<>>
        /\ xout.val.recorded = "completed"

\* A fetched document without any round heading came out as a record of
\* four empty collections and was recorded as completed.
EmptyEpisodeCompleted ==
    /\ xin.kind = "document"
    /\ xin.val.fetched
    /\ \A r \in 1..4 : SectionAbsent(xin.val.page, r)
    /\ xin.val.page # <<>>
    /\ xout.kind = "episode"
    /\ xout.val.episode = [ok |-> TRUE, rounds |-> <<<<>>, <<>>, <<>>, <<>>>>]
    /\ xout.val.recorded = "completed"

\* C18: between the end of a request and the start of the next one at
\* least the current delay of the rate limiter elapses.
DelayElapsesBetweenRequests ==
    (tpc = "requesting" /\ tReqs >= 1) => gap >= delay

====
